---- MODULE Spec2Model ----
(***************************************************************************)
(* The ingestion and retrieval pipeline of docs-fetcher:                   *)
(*   Embedder (core/embeddings/embedder.py), LanceDBManager                *)
(*   (core/vector_store/lancedb.py), Retriever (core/retrieval/...),       *)
(*   Chunker (core/chunker/chunker.py), the loader                         *)
(*   (core/data_ingestion/data_loader.py) and the runner                   *)
(*   (core/runner/run.py).                                                 *)
(* The scraper (core/scraper/scraper.py) that produces the Markdown files   *)
(* is a program of its own, with its own specification.                    *)
(* The third-party libraries (chonkie, sentence_transformers, openai,      *)
(* lancedb) are the environment: a call into one of them either returns    *)
(* what its contract promises or raises, chosen nondeterministically.      *)
(***************************************************************************)
EXTENDS Integers, Sequences, FiniteSets, TLC

VARIABLES
    \* Embedder
    use_local,              \* self.use_local
    openai_api_key,         \* self.openai_api_key ("None" or "key")
    local_embedding_model,  \* self.local_embedding_model ("None" or "model")
    openai_client,          \* self.openai_client ("None" or "client")
    setup,                  \* load_model() has been run on this Embedder
    load_log,               \* the failures load_model() printed, in order
    \* LanceDBManager and the database directory it points at
    db,                     \* self.db ("None" or "conn")
    dir_exists,             \* os.path.exists(db_path)
    table_exists,           \* table_name in db.table_names()
    rows,                   \* the rows of the table, in insertion order
    \* runner
    pc,                     \* where the run is
    raw_documents,          \* the loader's result
    doc_idx,                \* documents of raw_documents already processed
    all_documents_to_store, \* the records accumulated by the current run
    processed,              \* per processed document: its chunks and embeddings
    error,                  \* the exception that ended the run, or "None"
    runs,                   \* process_and_store_data calls started so far
    report,                 \* the lines process_and_store_data and the store
                            \* calls it makes printed in the current run
    add_calls,              \* add_documents calls of the current run
    ingested,               \* process_and_store_data calls entered since
                            \* load_data last returned
    written,                \* the batches add_documents wrote since the
                            \* database directory was last removed
    \* the operation that returned last
    embedded,               \* a direct get_embeddings call and its result
    retrieved,              \* a retrieve call and its result
    store_call,             \* the add_documents, get_document_count or
                            \* clear_data call that returned last
    \* scrape_documentation
    base_url,               \* its argument; NoUrl until it is called
    urls_to_visit,          \* the worklist
    visited_urls,           \* the URLs fetched successfully
    files,                  \* the files under output_dir: path and content
    saved,                  \* the pages whose file was written
    scrape_log              \* per iteration that fetched: the URL and what
                            \* the iteration printed about it

embedderVars == <<use_local, openai_api_key, local_embedding_model,
                  openai_client, setup, load_log>>
storeVars == <<db, dir_exists, table_exists, rows, written>>
runVars == <<pc, raw_documents, doc_idx, all_documents_to_store, processed,
             error, runs, report, add_calls, ingested>>
callVars == <<embedded, retrieved, store_call>>
pipelineVars == <<embedderVars, storeVars, runVars, callVars>>
scraperVars == <<base_url, urls_to_visit, visited_urls, files, saved,
                 scrape_log>>
vars == <<pipelineVars, scraperVars>>

----------------------------------------------------------------------------
\* Bounds of the model.

\* the longest document list the loader hands to one run
MaxDocs == 2
\* process_and_store_data calls in one behaviour
MaxRuns == 2
\* the largest k passed to retrieve
MaxK == 3
\* the longest list passed to get_embeddings directly
MaxTexts == 2

----------------------------------------------------------------------------
\* Values.

\* Python's None where an embedding vector is expected.
None == [space |-> "None", of |-> "", container |-> "None"]

\* The vector a backend computes for a text: the backend's embedding space,
\* the text it embeds and the container holding the numbers (a Python list
\* or a row of a numpy ndarray).
Vector(space, text, container) ==
    [space |-> space, of |-> text, container |-> container]

\* [None] * n
NoneList(n) == [i \in 1..n |-> None]

Min(a, b) == IF a <= b THEN a ELSE b

\* The Markdown files under the data directory: path -> text. A text is the
\* sequence of its sections; "BAD" is a text the chunking library raises on,
\* and d.md is an empty file.
Files == [p \in {"a.md", "b.md", "c.md", "d.md"} |->
            CASE p = "a.md" -> <<"p", "q", "r">>
              [] p = "b.md" -> <<"p">>
              [] p = "c.md" -> <<"BAD">>
              [] p = "d.md" -> <<>>]

\* The texts a caller may pass to get_embeddings and retrieve.
Texts == {"p", "q"}

\* The outcomes of a call into a library.
Outcomes == {"ok", "raise"}

RECURSIVE SeqsUpTo(_, _)
\* the sequences over S of length at most n
SeqsUpTo(S, n) ==
    IF n = 0 THEN {<<>>}
    ELSE LET shorter == SeqsUpTo(S, n - 1)
         IN  shorter \cup {Append(s, x) : s \in shorter, x \in S}

----------------------------------------------------------------------------
\* Embedder (core/embeddings/embedder.py)

\* Embedder.get_embeddings' return: the exception it raised ("None" when it
\* returned), the container it returned (a Python list or a numpy ndarray)
\* and the items in it.
Returned(container, items) ==
    [raised |-> "None", container |-> container, items |-> items]
Raised(exc) == [raised |-> exc, container |-> "list", items |-> <<>>]

\* _get_openai_embeddings_async without the try: the API error propagates
_get_openai_embeddings_async_uncaught(texts, outcome) ==
    IF openai_client = "None"
    THEN Returned("list", NoneList(Len(texts)))
    ELSE IF outcome = "ok"
         THEN Returned("list",
                       [i \in 1..Len(texts) |->
                          Vector("openai", texts[i], "list")])
         ELSE Raised("APIError")

\* _get_openai_embeddings_async(texts); outcome is what awaiting
\* openai_client.embeddings.create does: "ok" when the await hands back a
\* response with one embedding per input, "raise" when anything in the try
\* block raises.
_get_openai_embeddings_async(texts, outcome) ==
    IF openai_client = "None"
    THEN Returned("list", NoneList(Len(texts)))
    ELSE IF outcome = "ok"
         THEN Returned("list",
                       [i \in 1..Len(texts) |-> Vector("openai", texts[i], "list")])
         ELSE Returned("list", NoneList(Len(texts)))

\* _get_local_embeddings_async returning [None] for a failed batch
_get_local_embeddings_async_one_none(texts, outcome) ==
    IF local_embedding_model = "None"
    THEN Returned("list", NoneList(Len(texts)))
    ELSE IF outcome = "ok"
         THEN Returned("ndarray",
                       [i \in 1..Len(texts) |->
                          Vector("local", texts[i], "ndarray")])
         ELSE Returned("list", <<None>>)

\* _get_local_embeddings_async raising when no model is loaded
_get_local_embeddings_async_strict(texts, outcome) ==
    IF local_embedding_model = "None"
    THEN Raised("RuntimeError")
    ELSE IF outcome = "ok"
         THEN Returned("ndarray",
                       [i \in 1..Len(texts) |->
                          Vector("local", texts[i], "ndarray")])
         ELSE Returned("list", NoneList(Len(texts)))

\* _get_local_embeddings_async(texts); outcome is what
\* local_embedding_model.encode does: "ok" when it returns the ndarray with
\* one row per text, "raise" when it raises.
_get_local_embeddings_async(texts, outcome) ==
    IF local_embedding_model = "None"
    THEN Returned("list", NoneList(Len(texts)))
    ELSE IF outcome = "ok"
         THEN Returned("ndarray",
                       [i \in 1..Len(texts) |-> Vector("local", texts[i], "ndarray")])
         ELSE Returned("list", NoneList(Len(texts)))

\* get_embeddings(texts)
get_embeddings(texts, outcome) ==
    IF use_local
    THEN _get_local_embeddings_async(texts, outcome)
    ELSE _get_openai_embeddings_async(texts, outcome)

\* Embedder.__init__: nothing is loaded, no client exists.
EmbedderInit ==
    /\ use_local \in BOOLEAN
    /\ openai_api_key \in {"None", "key"}
    /\ local_embedding_model = "None"
    /\ openai_client = "None"
    /\ setup = FALSE
    /\ load_log = <<>>

\* No call has returned.
NoCall == [called |-> FALSE]

\* What get_embeddings prints about the backend it dispatches to when that
\* backend was never initialized (the guards of the two private methods).
NotInitializedReport ==
    IF use_local
    THEN (IF local_embedding_model = "None"
          THEN <<"Local embedding model is not loaded.">> ELSE <<>>)
    ELSE (IF openai_client = "None"
          THEN <<"OpenAI client not initialized.">> ELSE <<>>)

\* load_model that keeps use_local when the local model fails to load
load_model_no_fallback(loaded) ==
    /\ local_embedding_model' =
         IF use_local /\ loaded THEN "model" ELSE local_embedding_model
    /\ load_log' =
         IF use_local /\ ~loaded
         THEN <<"Error loading local embedding model">> ELSE <<>>
    /\ openai_client' =
         IF ~use_local /\ openai_api_key # "None"
         THEN "client" ELSE openai_client
    /\ UNCHANGED <<use_local, openai_api_key>>

\* load_model(): loaded is whether SentenceTransformer(...) returns.
load_model(loaded) ==
    LET use_local1 == use_local /\ loaded
    IN  /\ local_embedding_model' =
             IF use_local /\ loaded THEN "model" ELSE local_embedding_model
        /\ use_local' = use_local1
        /\ openai_client' =
             IF ~use_local1 /\ openai_api_key # "None"
             THEN "client" ELSE openai_client
        /\ load_log' =
             (IF use_local /\ ~loaded
              THEN <<"Error loading local embedding model">> ELSE <<>>)
             \o (IF ~use_local1 /\ openai_api_key = "None"
                 THEN <<"No embedding model initialized.">> ELSE <<>>)
        /\ UNCHANGED openai_api_key

\* initialize_components awaits load_model() once, before anything else.
LoadModel ==
    /\ UNCHANGED scraperVars
    /\ ~setup
    /\ \E loaded \in BOOLEAN : load_model(loaded)
    /\ setup' = TRUE
    /\ UNCHANGED <<storeVars, runVars, callVars>>

\* A caller's get_embeddings(texts).
GetEmbeddings ==
    /\ UNCHANGED scraperVars
    /\ \E texts \in SeqsUpTo(Texts, MaxTexts), outcome \in Outcomes :
         embedded' = [called |-> TRUE, texts |-> texts, setup |-> setup,
                      backend_raises |-> outcome = "raise",
                      printed |-> NotInitializedReport,
                      ret |-> get_embeddings(texts, outcome)]
    /\ UNCHANGED <<embedderVars, storeVars, runVars, retrieved, store_call>>

----------------------------------------------------------------------------
\* LanceDBManager (core/vector_store/lancedb.py)

\* _connect(): the first call connects, and lancedb.connect creates the
\* database directory; later calls reuse the cached handle.
DirAfterConnect == IF db = "None" THEN TRUE ELSE dir_exists

\* RowsAfterAdd replacing the table's data
RowsAfterAdd_Replace(documents) == documents

\* RowsAfterAdd with overwrite semantics: a stored row whose id is in the
\* batch is replaced
RowsAfterAdd_Upsert(documents) ==
    LET Kept(r) == \A p \in 1..Len(documents) : documents[p].id # r.id
    IN  IF table_exists THEN SelectSeq(rows, Kept) \o documents
        ELSE documents

\* The table's rows after add_documents(documents) went through: appended
\* to an existing table, or the data of a newly created one.
RowsAfterAdd(documents) ==
    IF table_exists THEN rows \o documents ELSE documents

\* add_documents(documents); outcome is what the lancedb calls in the try
\* block do. An exception is logged and re-raised.
add_documents(documents, outcome) ==
    IF documents = <<>>
    THEN UNCHANGED <<db, dir_exists, table_exists, rows>>
    ELSE /\ db' = "conn"
         /\ IF outcome = "ok"
            THEN /\ dir_exists' = TRUE
                 /\ table_exists' = TRUE
                 /\ rows' = RowsAfterAdd(documents)
            ELSE /\ dir_exists' = DirAfterConnect
                 /\ UNCHANGED <<table_exists, rows>>

\* add_documents swallowing the exception of the store write
AddRaises_Swallowed(documents, outcome) == FALSE

\* whether add_documents(documents) raises
AddRaises(documents, outcome) == documents # <<>> /\ outcome = "raise"

\* add_documents returning the number of documents it was given
AddReturns_Count(documents, outcome) == <<Len(documents)>>

\* add_documents' return value, as the sequence of the values returned: it
\* has no return statement with a value, so the call evaluates to None.
AddReturns(documents, outcome) == <<>>

\* A printed line: what it says, the path it names ("" if none) and the
\* number in it (0 if none).
Line(kind, source_path, n) ==
    [line |-> kind, source_path |-> source_path, n |-> n]

\* what add_documents(documents) prints
AddPrints(documents, outcome) ==
    IF documents = <<>>
    THEN <<Line("No documents to add to LanceDB.", "", 0)>>
    ELSE IF outcome = "ok"
    THEN <<Line(IF table_exists THEN "Table already exists. Appending new data."
                ELSE "Table created and data added.", "", 0),
           Line("Added documents to LanceDB.", "", Len(documents))>>
    ELSE <<Line("Error storing data in LanceDB", "", 0)>>

\* the database as a store call finds it
StoreState ==
    [db |-> db, dir_exists |-> dir_exists, table_exists |-> table_exists,
     rows |-> rows]

\* get_document_count counting the records of the current run
get_document_count_of_run == Len(all_documents_to_store)

\* get_document_count()'s return value
get_document_count == IF table_exists THEN Len(rows) ELSE 0

\* RemoveDatabase leaving the table to a manager that holds a connection
RemoveDatabase_StaleHandle ==
    IF dir_exists
    THEN /\ dir_exists' = FALSE
         /\ table_exists' = (db = "conn" /\ table_exists)
         /\ rows' = IF db = "conn" THEN rows ELSE <<>>
         /\ written' = IF db = "conn" THEN written ELSE <<>>
    ELSE UNCHANGED <<dir_exists, table_exists, rows, written>>

\* RemoveDatabase leaving the directory and all that is in it
RemoveDatabase_Keep == UNCHANGED <<dir_exists, table_exists, rows, written>>

\* shutil.rmtree(db_path) when the directory exists
RemoveDatabase ==
    IF dir_exists
    THEN /\ dir_exists' = FALSE
         /\ table_exists' = FALSE
         /\ rows' = <<>>
         /\ written' = <<>>
    ELSE UNCHANGED <<dir_exists, table_exists, rows, written>>

\* clear_data()
ClearData ==
    /\ UNCHANGED scraperVars
    /\ setup
    /\ pc \in {"idle", "loaded", "done", "aborted"}
    /\ RemoveDatabase
    /\ store_call' = [called |-> TRUE, op |-> "clear_data",
                      before |-> StoreState]
    /\ retrieved' = NoCall
    /\ UNCHANGED <<db, embedderVars, runVars, embedded>>

----------------------------------------------------------------------------
\* Loader (core/data_ingestion/data_loader.py)

\* read_markdown_files(directory): one {text, source_path} per file glob
\* finds and open() can read, in glob's order; glob names each file once.
LoaderResults ==
    {[i \in 1..Len(ps) |-> [text |-> Files[ps[i]], source_path |-> ps[i]]] :
        ps \in {s \in SeqsUpTo(DOMAIN Files, MaxDocs) :
                   \A i, j \in 1..Len(s) : i # j => s[i] # s[j]}}

\* load_data(data_dir): populate_dummy_data removes the database directory,
\* then the Markdown files are read. run() gets here after
\* initialize_components; the frame of an earlier process_and_store_data is
\* gone by then.
LoadData ==
    /\ UNCHANGED scraperVars
    /\ setup
    /\ pc \in {"idle", "done", "aborted"}
    /\ runs < MaxRuns
    /\ RemoveDatabase
    /\ \E docs \in LoaderResults : raw_documents' = docs
    /\ pc' = "loaded"
    /\ doc_idx' = 0
    /\ all_documents_to_store' = <<>>
    /\ processed' = <<>>
    /\ error' = "None"
    /\ report' = <<>>
    /\ add_calls' = 0
    /\ ingested' = 0
    /\ retrieved' = NoCall
    /\ store_call' = NoCall
    /\ UNCHANGED <<db, embedderVars, runs, embedded>>

----------------------------------------------------------------------------
\* Chunker (core/chunker/chunker.py)

\* whether chunk_document(text) raises: the chunking library cannot segment
\* the text
ChunkRaises(text) == \E i \in 1..Len(text) : text[i] = "BAD"

\* chunk_document(text): the library's chunks, one per section, in order
chunk_document(text) == [i \in 1..Len(text) |-> [text |-> text[i]]]

----------------------------------------------------------------------------
\* Runner (core/runner/run.py)

\* DocId without the source path
DocId_IndexOnly(doc_source_path, i) == ToString(i)

\* doc_id = f"{doc_source_path}_{i}"
DocId(doc_source_path, i) == doc_source_path \o "_" \o ToString(i)

RECURSIVE BuildRecords_KeepFailed(_, _, _, _)
\* BuildRecords without the test for None: a record for every chunk
BuildRecords_KeepFailed(doc_source_path, chunks, embeddings, i) ==
    IF i >= Len(chunks) THEN <<>>
    ELSE <<[id |-> doc_source_path \o "_" \o ToString(i),
            text |-> chunks[i + 1].text,
            source_path |-> doc_source_path,
            vector |-> embeddings[i + 1]]>>
         \o BuildRecords_KeepFailed(doc_source_path, chunks, embeddings,
                                    i + 1)

RECURSIVE BuildRecords(_, _, _, _)
\* The loop over enumerate(chunks), from index i on: a record for each chunk
\* whose embedding is not None, in chunk order.
BuildRecords(doc_source_path, chunks, embeddings, i) ==
    IF i >= Len(chunks) THEN <<>>
    ELSE (IF embeddings[i + 1] # None
          THEN <<[id |-> DocId(doc_source_path, i),
                  text |-> chunks[i + 1].text,
                  source_path |-> doc_source_path,
                  vector |-> embeddings[i + 1]]>>
          ELSE <<>>)
         \o BuildRecords(doc_source_path, chunks, embeddings, i + 1)

\* process_and_store_data is entered: the accumulator is empty.
StartIngestion ==
    /\ UNCHANGED scraperVars
    /\ pc \in {"loaded", "done", "aborted"}
    /\ runs < MaxRuns
    /\ runs' = runs + 1
    /\ pc' = "processing"
    /\ doc_idx' = 0
    /\ all_documents_to_store' = <<>>
    /\ processed' = <<>>
    /\ error' = "None"
    /\ report' = <<>>
    /\ add_calls' = 0
    /\ ingested' = ingested + 1
    /\ retrieved' = NoCall
    /\ store_call' = NoCall
    /\ UNCHANGED <<raw_documents, embedderVars, storeVars, embedded>>

\* The run ends with exception exc: the accumulator is dropped with the
\* frame of process_and_store_data.
Abort(exc) ==
    /\ pc' = "aborted"
    /\ error' = exc
    /\ UNCHANGED <<doc_idx, all_documents_to_store, processed>>

\* The lines the loop over enumerate(chunks) prints: one for each chunk whose
\* embedding is None, naming the chunk's index.
SkippedLines(doc_source_path, chunks, embeddings) ==
    LET indexes == [p \in 1..Len(chunks) |-> p - 1]
        Failed(i) == embeddings[i + 1] = None
        skipped == SelectSeq(indexes, Failed)
    IN  [p \in 1..Len(skipped) |->
           Line("Skipping chunk due to embedding failure.", doc_source_path,
                skipped[p])]

\* EmbedderResults of an embedder that fails on the first text only
EmbedderResults_FirstFails(texts) ==
    {Returned("list", [i \in 1..Len(texts) |->
                         IF i = 1 THEN None
                         ELSE Vector("local", texts[i], "list")])}

\* EmbedderResults embedding the document's text as a whole for each chunk
EmbedderResults_Unchunked(texts) ==
    {Returned("list", [i \in 1..Len(texts) |->
                         Vector("local", "document", "list")])}

\* What embedder.get_embeddings(texts) may return when embedder is the
\* repository's Embedder.
EmbedderResults(texts) ==
    {get_embeddings(texts, outcome) : outcome \in Outcomes}

\* What embedder.get_embeddings(texts) may return when the embedder handed to
\* process_and_store_data embeds each text on its own: a vector or None at
\* each position.
PerTextResults(texts) ==
    {Returned("list", [i \in 1..Len(texts) |->
                         IF i \in failed THEN None
                         ELSE Vector("local", texts[i], "list")]) :
        failed \in SUBSET (1..Len(texts))}

\* One iteration of the loop over raw_documents: chunk, embed, build.
\* embedder is the embedder handed to process_and_store_data: "Embedder", or
\* "PerText" for one that can fail on single texts.
process_document(embedder) ==
    /\ UNCHANGED scraperVars
    /\ pc = "processing"
    /\ doc_idx < Len(raw_documents)
    /\ LET raw_doc == raw_documents[doc_idx + 1]
           doc_source_path == raw_doc.source_path
           entered == Append(report, Line("Processing document from:",
                                          doc_source_path, 0))
       IN  IF ChunkRaises(raw_doc.text)
           THEN Abort("ChunkingError") /\ report' = entered
           ELSE LET chunks == chunk_document(raw_doc.text)
                    chunk_texts == [i \in 1..Len(chunks) |-> chunks[i].text]
                    results == IF embedder = "Embedder"
                               THEN EmbedderResults(chunk_texts)
                               ELSE PerTextResults(chunk_texts)
                    chunked == Append(entered,
                                      Line("Generated chunks for this document.",
                                           "", Len(chunks)))
                IN  \E got \in results :
                      IF got.raised # "None"
                      THEN Abort(got.raised) /\ report' = chunked
                      ELSE IF Len(got.items) < Len(chunks)
                      THEN Abort("IndexError") /\ report' = chunked
                      ELSE /\ report' = chunked \o
                                SkippedLines(doc_source_path, chunks, got.items)
                           /\ all_documents_to_store' =
                                all_documents_to_store \o
                                BuildRecords(doc_source_path, chunks,
                                             got.items, 0)
                           /\ processed' =
                                Append(processed,
                                       [source_path |-> doc_source_path,
                                        chunks |-> chunks,
                                        embeddings |-> got.items])
                           /\ doc_idx' = doc_idx + 1
                           /\ UNCHANGED <<pc, error>>
    /\ retrieved' = NoCall
    /\ UNCHANGED <<raw_documents, runs, add_calls, ingested, embedderVars,
                   storeVars, embedded, store_call>>

\* The loop's iteration in run(): the embedder is the Embedder.
ProcessDocument == process_document("Embedder")

\* The loop's iteration with an embedder that can fail on single texts.
ProcessDocumentPerText == process_document("PerText")

\* the loop stopping after the first document
AllProcessed_FirstOnly == doc_idx = Min(1, Len(raw_documents))

\* The loop over raw_documents is exhausted.
AllProcessed == doc_idx = Len(raw_documents)

\* After the loop: await db_manager.add_documents(all_documents_to_store).
\* An exception it raises ends the run.
StoreBatch ==
    /\ UNCHANGED scraperVars
    /\ pc = "processing"
    /\ AllProcessed
    /\ \E outcome \in Outcomes :
         /\ add_documents(all_documents_to_store, outcome)
         /\ add_calls' = add_calls + 1
         /\ report' = report \o AddPrints(all_documents_to_store, outcome)
         /\ store_call' =
              [called |-> TRUE, op |-> "add_documents",
               documents |-> all_documents_to_store,
               before |-> StoreState, outcome |-> outcome,
               raised |-> AddRaises(all_documents_to_store, outcome),
               ret |-> AddReturns(all_documents_to_store, outcome)]
         /\ IF AddRaises(all_documents_to_store, outcome)
            THEN /\ pc' = "aborted"
                 /\ error' = "StoreWriteError"
                 /\ UNCHANGED written
            ELSE /\ pc' = "stored"
                 /\ UNCHANGED error
                 /\ written' = IF all_documents_to_store = <<>>
                               THEN written
                               ELSE Append(written, all_documents_to_store)
    /\ retrieved' = NoCall
    /\ UNCHANGED <<raw_documents, doc_idx, all_documents_to_store, processed,
                   runs, ingested, embedderVars, embedded>>

\* The last two lines of process_and_store_data: the table's count from
\* get_document_count(), which connects first, and the closing line.
ReportCount ==
    /\ UNCHANGED scraperVars
    /\ pc = "stored"
    /\ db' = "conn"
    /\ dir_exists' = DirAfterConnect
    /\ store_call' = [called |-> TRUE, op |-> "get_document_count",
                      before |-> StoreState,
                      raised |-> FALSE, ret |-> get_document_count]
    /\ report' = report \o
           <<Line("Total documents in LanceDB table:", "", get_document_count),
             Line("Data processing and storage complete.", "", 0)>>
    /\ pc' = "done"
    /\ retrieved' = NoCall
    /\ UNCHANGED <<table_exists, rows, written, raw_documents, doc_idx,
                   all_documents_to_store, processed, error, runs, add_calls,
                   ingested, embedderVars, embedded>>

----------------------------------------------------------------------------
\* Retriever (core/retrieval/retrieval.py)

\* ndarray.any(): an array that encode returned holds a nonzero number
ndarray_any(items) == \E i \in 1..Len(items) : items[i] # None

\* v.tolist() when v has the attribute, else v
ToList(v) == IF v.container = "ndarray"
             THEN [v EXCEPT !.container = "list"] ELSE v

\* table.search(query_vector): the rows, nearest first; a row embedding the
\* query's own text is at distance 0, and ties keep insertion order.
Ranked(query_vector) ==
    LET Nearest(r) == r.vector.of = query_vector.of
        Farther(r) == r.vector.of # query_vector.of
    IN  SelectSeq(rows, Nearest) \o SelectSeq(rows, Farther)

\* table.search(query_vector).limit(k).to_list()
Search(query_vector, k) ==
    LET ranked == Ranked(query_vector)
    IN  SubSeq(ranked, 1, Min(k, Len(ranked)))

\* The store's part of retrieve, from get_table() on: the empty list when no
\* table exists, the k nearest rows otherwise.
store_search(query_vector, k) ==
    IF ~table_exists THEN <<>> ELSE Search(query_vector, k)

\* What retrieve(query_text, k) does: the exception it raises ("None" when
\* it returns), the list it returns, and whether it reached get_table and
\* table.search. embed_outcome and search_outcome are what the embedding
\* backend and table.search do.
retrieve(query_text, k, embed_outcome, search_outcome) ==
    LET got == get_embeddings(<<query_text>>, embed_outcome)
        Result(exc, value, connected, searched) ==
            [raised |-> exc, value |-> value, connected |-> connected,
             searched |-> searched]
    IN  IF got.raised # "None"
        THEN Result(got.raised, <<>>, FALSE, FALSE)
        ELSE IF got.container = "list"
        THEN \* query_embeddings_list.any(): a list has no attribute any
             Result("AttributeError", <<>>, FALSE, FALSE)
        ELSE IF ~(ndarray_any(got.items) /\ Len(got.items) > 0 /\ got.items[1] # None)
        THEN Result("None", <<>>, FALSE, FALSE)
        ELSE IF ~table_exists
        THEN Result("None", <<>>, TRUE, FALSE)
        ELSE IF search_outcome = "raise"
        THEN Result("None", <<>>, TRUE, TRUE)
        ELSE Result("None", store_search(ToList(got.items[1]), k),
                    TRUE, TRUE)

\* A caller's retrieve(query_text, k).
Retrieve ==
    /\ UNCHANGED scraperVars
    /\ setup
    /\ pc \in {"idle", "loaded", "done", "aborted"}
    /\ retrieved = NoCall
    /\ \E query_text \in Texts, k \in 1..MaxK,
          embed_outcome \in Outcomes, search_outcome \in Outcomes :
         LET got == get_embeddings(<<query_text>>, embed_outcome)
             ret == retrieve(query_text, k, embed_outcome, search_outcome)
         IN  /\ retrieved' =
                  [called |-> TRUE, query_text |-> query_text, k |-> k,
                   no_vector |-> \A i \in 1..Len(got.items) :
                                    got.items[i] = None,
                   table_absent |-> ~table_exists,
                   count |-> get_document_count,
                   ret |-> ret]
             /\ db' = IF ret.connected THEN "conn" ELSE db
             /\ dir_exists' = IF ret.connected THEN DirAfterConnect
                              ELSE dir_exists
    /\ store_call' = NoCall
    /\ UNCHANGED <<table_exists, rows, written, embedderVars, runVars,
                   embedded>>

\* The caller is done with what retrieve returned (query_and_retrieve prints
\* the chunks and goes on to its next query).
Return ==
    /\ UNCHANGED scraperVars
    /\ retrieved # NoCall
    /\ retrieved' = NoCall
    /\ UNCHANGED <<embedderVars, storeVars, runVars, embedded, store_call>>

----------------------------------------------------------------------------
\* Scraper (core/scraper/scraper.py)

\* A URL, by the parts urlparse gives: the network location, the segments of
\* the path between its slashes, whether the path ends in a slash, and the
\* query. Url("site", <<"docs", "a">>, TRUE, "") is https://site/docs/a/ and
\* Url("site", <<>>, TRUE, "") is https://site/.
Url(netloc, segments, slash, query) ==
    [netloc |-> netloc, segments |-> segments, slash |-> slash,
     query |-> query]

\* no URL: scrape_documentation has not been called, or an href names none
NoUrl == Url("", <<>>, FALSE, "")

Root == Url("site", <<>>, TRUE, "")
Docs == Url("site", <<"docs">>, TRUE, "")
PageA == Url("site", <<"docs", "a">>, FALSE, "")
PageASlash == Url("site", <<"docs", "a">>, TRUE, "")
PageAQuery == Url("site", <<"docs", "a">>, FALSE, "v=2")
Blog == Url("site", <<"blog">>, FALSE, "")
Elsewhere == Url("other", <<"docs", "c">>, FALSE, "")

\* the base URLs scrape_documentation may be called with
BaseUrls == {Root, Docs}

\* An <a href>: an absolute URL with or without a fragment, or a fragment
\* alone ("#top").
Href(url, fragment) == [url |-> url, fragment |-> fragment]
FragmentOnly == [url |-> NoUrl, fragment |-> "top"]

\* The site: the hrefs of each page, in document order. A URL that is not in
\* the domain has no page.
Site ==
    [u \in {Root, Docs, PageA, PageASlash, PageAQuery} |->
       CASE u = Root -> <<Href(Docs, "")>>
         [] u = Docs -> <<Href(PageA, ""), FragmentOnly,
                          Href(PageASlash, "sec"), Href(Blog, ""),
                          Href(Elsewhere, "")>>
         [] u = PageA -> <<Href(Docs, ""), Href(PageAQuery, "")>>
         [] u = PageASlash -> <<Href(PageA, ""), Href(PageAQuery, "")>>
         [] u = PageAQuery -> <<Href(PageA, ""), Href(PageA, "sec")>>]

\* path_filter in absolute_url, for path_filter = "/docs/": the URL's string
\* holds "/docs/" when a path segment is docs and a slash follows it.
ContainsPathFilter(url) ==
    \E i \in 1..Len(url.segments) :
        /\ url.segments[i] = "docs"
        /\ (i < Len(url.segments) \/ url.slash)

\* parsed_url.path.strip('/').split('/'): the segments; the split of the
\* empty string is the list holding the empty string.
PathSegments(url) == IF url.segments = <<>> THEN <<"">> ELSE url.segments

\* file_path below output_dir, as its components: the directories are
\* path_segments[:-1], the file name is index.md when the last segment is
\* empty and the last segment plus ".md" otherwise.
FilePath(url) ==
    LET path_segments == PathSegments(url)
        last == path_segments[Len(path_segments)]
        filename == IF last = "" THEN "index.md" ELSE last \o ".md"
    IN  SubSeq(path_segments, 1, Len(path_segments) - 1) \o <<filename>>

\* open(file_path, 'w') and write: the file holds this page's Markdown,
\* whatever it held before.
WriteFile(file_path, url) ==
    {f \in files : f.path # file_path}
    \cup {[path |-> file_path, content |-> url]}

RECURSIVE DiscoverLinks(_, _, _)
\* The loop over the page's hrefs, from href i on: the URLs it appends to
\* urls_to_visit. A fragment-only href is skipped, a fragment is cut off,
\* and a URL is appended when it is not in visited, has base_url's netloc
\* and holds path_filter.
DiscoverLinks(hrefs, i, visited) ==
    IF i > Len(hrefs) THEN <<>>
    ELSE LET href == hrefs[i]
             absolute_url == href.url
         IN  (IF href.url # NoUrl
                 /\ absolute_url \notin visited
                 /\ absolute_url.netloc = base_url.netloc
                 /\ ContainsPathFilter(absolute_url)
              THEN <<absolute_url>> ELSE <<>>)
             \o DiscoverLinks(hrefs, i + 1, visited)

\* What an iteration that fetched current_url printed about it: "Error
\* fetching", "Could not find a suitable content area", "Saved to" or "Error
\* saving file".
Scraped(current_url, outcome) == [url |-> current_url, outcome |-> outcome]

\* scrape_documentation(base_url, output_dir, path_filter) is called.
ScrapeDocumentation ==
    /\ base_url = NoUrl
    /\ \E b \in BaseUrls :
         /\ base_url' = b
         /\ urls_to_visit' = <<b>>
    /\ UNCHANGED <<visited_urls, files, saved, scrape_log, pipelineVars>>

\* SkipVisited putting the URL back at the end of the worklist
SkipVisited_Requeues ==
    /\ base_url # NoUrl
    /\ urls_to_visit # <<>>
    /\ Head(urls_to_visit) \in visited_urls
    /\ urls_to_visit' = Append(Tail(urls_to_visit), Head(urls_to_visit))
    /\ UNCHANGED <<base_url, visited_urls, files, saved, scrape_log,
                   pipelineVars>>

\* An iteration that pops a URL already visited.
SkipVisited ==
    /\ base_url # NoUrl
    /\ urls_to_visit # <<>>
    /\ Head(urls_to_visit) \in visited_urls
    /\ urls_to_visit' = Tail(urls_to_visit)
    /\ UNCHANGED <<base_url, visited_urls, files, saved, scrape_log,
                   pipelineVars>>

\* FetchFails adding the URL to visited_urls before the fetch
FetchFails_MarksVisited ==
    /\ base_url # NoUrl
    /\ urls_to_visit # <<>>
    /\ Head(urls_to_visit) \notin visited_urls
    /\ visited_urls' = visited_urls \cup {Head(urls_to_visit)}
    /\ urls_to_visit' = Tail(urls_to_visit)
    /\ scrape_log' = Append(scrape_log,
                            Scraped(Head(urls_to_visit), "Error fetching"))
    /\ UNCHANGED <<base_url, files, saved, pipelineVars>>

\* An iteration whose requests.get or raise_for_status raises: the URL is
\* dropped from the worklist and not marked visited.
FetchFails ==
    /\ base_url # NoUrl
    /\ urls_to_visit # <<>>
    /\ Head(urls_to_visit) \notin visited_urls
    /\ urls_to_visit' = Tail(urls_to_visit)
    /\ scrape_log' = Append(scrape_log,
                            Scraped(Head(urls_to_visit), "Error fetching"))
    /\ UNCHANGED <<base_url, visited_urls, files, saved, pipelineVars>>

\* An iteration whose response has no content area and no body: the URL is
\* visited, nothing is saved and no link is followed.
NoBody ==
    /\ base_url # NoUrl
    /\ urls_to_visit # <<>>
    /\ Head(urls_to_visit) \notin visited_urls
    /\ Head(urls_to_visit) \in DOMAIN Site
    /\ visited_urls' = visited_urls \cup {Head(urls_to_visit)}
    /\ urls_to_visit' = Tail(urls_to_visit)
    /\ scrape_log' = Append(scrape_log,
                            Scraped(Head(urls_to_visit), "No content area"))
    /\ UNCHANGED <<base_url, files, saved, pipelineVars>>

\* An iteration that gets its page: the URL is visited, the Markdown is
\* written to its file (an OSError is printed and the loop goes on) and the
\* links are appended to the worklist.
ScrapePage ==
    /\ base_url # NoUrl
    /\ urls_to_visit # <<>>
    /\ LET current_url == Head(urls_to_visit)
       IN  /\ current_url \notin visited_urls
           /\ current_url \in DOMAIN Site
           /\ visited_urls' = visited_urls \cup {current_url}
           /\ \E written_ok \in BOOLEAN :
                IF written_ok
                THEN /\ files' = WriteFile(FilePath(current_url), current_url)
                     /\ saved' = saved \cup {current_url}
                     /\ scrape_log' =
                          Append(scrape_log, Scraped(current_url, "Saved"))
                ELSE /\ scrape_log' =
                          Append(scrape_log,
                                 Scraped(current_url, "Error saving"))
                     /\ UNCHANGED <<files, saved>>
           /\ urls_to_visit' =
                Tail(urls_to_visit)
                \o DiscoverLinks(Site[current_url], 1,
                                 visited_urls \cup {current_url})
    /\ UNCHANGED <<base_url, pipelineVars>>

----------------------------------------------------------------------------
\* The system.

Init ==
    /\ EmbedderInit
    /\ db = "None"
    /\ dir_exists = FALSE
    /\ table_exists = FALSE
    /\ rows = <<>>
    /\ written = <<>>
    /\ pc = "idle"
    /\ raw_documents = <<>>
    /\ doc_idx = 0
    /\ all_documents_to_store = <<>>
    /\ processed = <<>>
    /\ error = "None"
    /\ runs = 0
    /\ report = <<>>
    /\ add_calls = 0
    /\ ingested = 0
    /\ embedded = NoCall
    /\ retrieved = NoCall
    /\ store_call = NoCall
    /\ base_url = NoUrl
    /\ urls_to_visit = <<>>
    /\ visited_urls = {}
    /\ files = {}
    /\ saved = {}
    /\ scrape_log = <<>>

\* run(), its phases, and the callers of the Retriever and of clear_data.
Next ==
    \/ LoadModel
    \/ ClearData
    \/ LoadData
    \/ StartIngestion
    \/ ProcessDocument
    \/ StoreBatch
    \/ ReportCount
    \/ Retrieve
    \/ Return

Spec == Init /\ [][Next]_vars

\* process_and_store_data handed an embedder that can fail on single texts.
PerTextNext ==
    \/ LoadModel
    \/ LoadData
    \/ StartIngestion
    \/ ProcessDocumentPerText
    \/ StoreBatch
    \/ ReportCount

SpecPerText == Init /\ [][PerTextNext]_vars

\* An Embedder on its own: constructed, set up or not, and asked to embed.
EmbedderNext ==
    \/ LoadModel
    \/ GetEmbeddings

SpecEmbedder == Init /\ [][EmbedderNext]_vars

\* One call of scrape_documentation: the iterations of its while loop.
ScraperNext ==
    \/ ScrapeDocumentation
    \/ SkipVisited
    \/ FetchFails
    \/ NoBody
    \/ ScrapePage

SpecScraper == Init /\ [][ScraperNext]_vars

\* One iteration of the while loop, whatever it meets.
Iteration == SkipVisited \/ FetchFails \/ NoBody \/ ScrapePage

\* The call runs in one thread and nothing suspends it: while urls_to_visit
\* is not empty the loop goes into its next iteration, and an iteration
\* ends, its fetch being given a timeout.
SpecScraperFair == Init /\ [][ScraperNext]_vars /\ WF_vars(Iteration)

----------------------------------------------------------------------------
\* Properties.

\* the positions of seq holding a record with this id
PositionsOf(seq, id) == {p \in 1..Len(seq) : seq[p].id = id}

\* the records of seq that come from this source_path
FromSource(seq, source_path) ==
    {p \in 1..Len(seq) : seq[p].source_path = source_path}

\* the positions of a processed document whose embedding is a vector
Embedded(doc) == {i \in 1..Len(doc.chunks) : doc.embeddings[i] # None}

RECURSIVE Flatten(_)
\* the batches one after the other
Flatten(batches) ==
    IF batches = <<>> THEN <<>>
    ELSE Head(batches) \o Flatten(Tail(batches))

\* C1: in an ingestion run, a chunk whose embedding is None gets no record
\* and every other chunk gets exactly one (its text, its embedding), so a
\* document contributes as many records as it has embedded chunks; the run
\* is never ended by an embedding failure and goes on to the next document.
C1_FailedEmbeddingSkipsChunk ==
    /\ Len(processed) = doc_idx
    /\ error \in {"None", "ChunkingError", "StoreWriteError"}
    /\ \A j \in 1..Len(processed) :
         LET doc == processed[j]
         IN  /\ Len(doc.embeddings) = Len(doc.chunks)
             /\ Cardinality(FromSource(all_documents_to_store,
                                       doc.source_path))
                  = Cardinality(Embedded(doc))
             /\ \A i \in 0..(Len(doc.chunks) - 1) :
                  LET at == {p \in FromSource(all_documents_to_store,
                                              doc.source_path) :
                               /\ all_documents_to_store[p].text
                                    = doc.chunks[i + 1].text
                               /\ all_documents_to_store[p].vector
                                    = doc.embeddings[i + 1]}
                  IN  IF doc.embeddings[i + 1] = None
                      THEN at = {}
                      ELSE Cardinality(at) = 1

\* C1 witness: a run that is done although one of the three embeddings of
\* a.md failed: a.md has two records, and they are stored.
C1_Witness ==
    /\ pc = "done"
    /\ \E j \in 1..Len(processed) :
         /\ Len(processed[j].chunks) = 3
         /\ Cardinality(Embedded(processed[j])) = 2
         /\ Cardinality(FromSource(all_documents_to_store,
                                   processed[j].source_path)) = 2
         /\ Cardinality(FromSource(rows, processed[j].source_path)) = 2

\* the ids of a batch, in order
IdsOf(batch) == [p \in 1..Len(batch) |-> batch[p].id]

\* Two ingestions wrote into the table since it was created, and both wrote
\* records with the same ids.
SameDocumentsTwice ==
    /\ pc = "done"
    /\ Len(written) = 2
    /\ IdsOf(written[1]) = IdsOf(written[2])

\* C2 as claimed: after the same documents were ingested twice with no reset
\* in between, the store holds exactly one record per id and count() is what
\* it was after the first ingestion.
C2_ReingestionOverwrites ==
    SameDocumentsTwice =>
        /\ \A p \in 1..Len(rows) :
             Cardinality(PositionsOf(rows, rows[p].id)) = 1
        /\ get_document_count = Len(written[1])

\* C2 as amended: add_documents appends. The table holds the batches written
\* since it was created, one after the other; after the same documents were
\* ingested twice every id is stored twice and count() is twice what it was
\* after the first ingestion.
C2_ReingestionAppends ==
    /\ written # <<>> => table_exists
    /\ rows = Flatten(written)
    /\ SameDocumentsTwice =>
         /\ \A p \in 1..Len(rows) :
              Cardinality(PositionsOf(rows, rows[p].id)) = 2
         /\ get_document_count = 2 * Len(written[1])

\* C2 witness: a.md and b.md ingested twice, their four ids stored twice.
C2_Witness ==
    /\ SameDocumentsTwice
    /\ Len(written[1]) = 4
    /\ Len(rows) = 8

\* C3 as claimed: a document the chunker raises on is skipped and the run
\* goes on, so once the run has ended without a store failure every document
\* the chunker can segment has been chunked and embedded.
C3_ChunkFailureSkipsDocument ==
    (pc \in {"done", "aborted"} /\ error # "StoreWriteError") =>
        \A d \in 1..Len(raw_documents) :
            ~ChunkRaises(raw_documents[d].text) =>
                \E j \in 1..Len(processed) :
                    processed[j].source_path = raw_documents[d].source_path

\* C4 as claimed: when the embedder produces no vector for the query,
\* retrieve does not raise, returns the empty list and does not search.
C4_NoVectorReturnsEmpty ==
    (retrieved.called /\ retrieved.no_vector) =>
        /\ retrieved.ret.raised = "None"
        /\ retrieved.ret.value = <<>>
        /\ ~retrieved.ret.searched

\* C5 as claimed: retrieve while no table exists returns the empty list and
\* does not raise.
C5_AbsentTableReturnsEmpty ==
    (retrieved.called /\ retrieved.table_absent) =>
        /\ retrieved.ret.raised = "None"
        /\ retrieved.ret.value = <<>>

\* C6 as claimed: for every query and every positive k, in every store state,
\* retrieve returns min(k, count()) records and does not raise.
C6_LenIsMinKCount ==
    retrieved.called =>
        /\ retrieved.ret.raised = "None"
        /\ Len(retrieved.ret.value) = Min(retrieved.k, retrieved.count)

\* C7: every accumulated record has id source_path + "_" + i for the
\* zero-based position i of its chunk among all chunks of its document, and
\* carries that chunk's text and embedding; when the loader's source_paths
\* are pairwise distinct no two accumulated records share an id.
C7_RecordIds ==
    /\ \A p \in 1..Len(all_documents_to_store) :
         LET rec == all_documents_to_store[p]
         IN  \E j \in 1..Len(processed) :
               \E i \in 0..(Len(processed[j].chunks) - 1) :
                 /\ rec.source_path = processed[j].source_path
                 /\ rec.id = processed[j].source_path \o "_" \o ToString(i)
                 /\ rec.text = processed[j].chunks[i + 1].text
                 /\ rec.vector = processed[j].embeddings[i + 1]
    /\ (\A d, e \in 1..Len(raw_documents) :
          d # e => raw_documents[d].source_path # raw_documents[e].source_path)
       => \A p, q \in 1..Len(all_documents_to_store) :
            p # q => all_documents_to_store[p].id
                       # all_documents_to_store[q].id

\* C7 witness: a.md with its second chunk skipped, and b.md: the records
\* accumulated in one run have the ids a.md_0, a.md_2 and b.md_0.
C7_Witness ==
    /\ Len(all_documents_to_store) = 3
    /\ {all_documents_to_store[p].id : p \in 1..3}
         = {"a.md_0", "a.md_2", "b.md_0"}

\* C8: get_embeddings(texts) returns len(texts) results, result i being the
\* embedding of texts[i] or None, whatever the Embedder's state.
C8_OneResultPerText ==
    embedded.called =>
        /\ Len(embedded.ret.items) = Len(embedded.texts)
        /\ \A i \in 1..Len(embedded.ret.items) :
             \/ embedded.ret.items[i] = None
             \/ embedded.ret.items[i].of = embedded.texts[i]

\* C8 witness: two different texts embedded, in their order.
C8_Witness ==
    /\ embedded.called
    /\ Len(embedded.texts) = 2
    /\ embedded.texts[1] # embedded.texts[2]
    /\ embedded.ret.items[1].of = embedded.texts[1]
    /\ embedded.ret.items[2].of = embedded.texts[2]

\* C9: get_embeddings does not raise; when the backend call fails, every
\* position of the result holds None.
C9_BackendErrorBecomesNone ==
    embedded.called =>
        /\ embedded.ret.raised = "None"
        /\ embedded.backend_raises =>
             embedded.ret.items = NoneList(Len(embedded.texts))

\* C9 witness: an initialized backend raised on a batch of two texts and the
\* call returned two Nones.
C9_Witness ==
    /\ embedded.called
    /\ embedded.setup
    /\ embedded.backend_raises
    /\ local_embedding_model = "model" \/ openai_client = "client"
    /\ embedded.ret.items = <<None, None>>

\* C10 as claimed: get_embeddings before load_model fails.
C10_EmbedBeforeSetupFails ==
    (embedded.called /\ ~embedded.setup) => embedded.ret.raised # "None"

\* C10 as amended: get_embeddings before load_model does not raise; it
\* returns a list holding None at every position.
C10_EmbedBeforeSetupReturnsNones ==
    (embedded.called /\ ~embedded.setup) =>
        /\ embedded.ret.raised = "None"
        /\ embedded.ret.container = "list"
        /\ embedded.ret.items = NoneList(Len(embedded.texts))

\* C10 witness: two texts passed to an Embedder that was never set up.
C10_Witness ==
    /\ embedded.called
    /\ ~embedded.setup
    /\ ~setup
    /\ Len(embedded.texts) = 2
    /\ embedded.ret.items = <<None, None>>

\* load_model ran with Local selected and the local model failed to load
LocalLoadFailed ==
    /\ setup
    /\ load_log # <<>>
    /\ load_log[1] = "Error loading local embedding model"

\* the times load_model reported that no backend is available
SetupReports ==
    Cardinality({p \in 1..Len(load_log) :
                   load_log[p] = "No embedding model initialized."})

\* C11 as claimed: when Local is selected and its model fails to load, then
\* with an API key the Embedder uses the Remote backend (client initialized,
\* use_local false), and without one the unavailability is reported once, at
\* setup, and by no get_embeddings call after it.
C11_UnavailableReportedOnce ==
    LocalLoadFailed =>
        /\ openai_api_key # "None" =>
              (~use_local /\ openai_client = "client")
        /\ openai_api_key = "None" =>
              /\ SetupReports = 1
              /\ (embedded.called /\ embedded.setup) =>
                    embedded.printed = <<>>

\* C11 as amended: the fallback is as claimed; without an API key no backend
\* is left, load_model reports it once, and every get_embeddings call after
\* setup reports again that the client is not initialized and returns None
\* for every text. With an API key nothing is reported, at setup or later.
C11_UnavailableReportedAtSetupAndPerCall ==
    LocalLoadFailed =>
        /\ ~use_local
        /\ local_embedding_model = "None"
        /\ openai_api_key # "None" =>
              /\ openai_client = "client"
              /\ SetupReports = 0
              /\ (embedded.called /\ embedded.setup) =>
                    embedded.printed = <<>>
        /\ openai_api_key = "None" =>
              /\ openai_client = "None"
              /\ SetupReports = 1
              /\ (embedded.called /\ embedded.setup) =>
                    /\ embedded.printed = <<"OpenAI client not initialized.">>
                    /\ embedded.ret.raised = "None"
                    /\ embedded.ret.items = NoneList(Len(embedded.texts))

\* C11 witness: the local model failed to load, no API key is set, and a
\* get_embeddings call for two texts after setup reported the missing client.
C11_Witness ==
    /\ LocalLoadFailed
    /\ openai_api_key = "None"
    /\ embedded.called
    /\ embedded.setup
    /\ Len(embedded.texts) = 2
    /\ embedded.printed # <<>>

\* after load_model, neither backend can embed: no local model is loaded and
\* no OpenAI client exists
NoBackendUsable ==
    /\ setup
    /\ local_embedding_model = "None"
    /\ openai_client = "None"

\* C12 as claimed: when neither backend is usable after setup the run is
\* aborted at initialization, so no document is ever chunked and handed to
\* get_embeddings.
C12_NoBackendAbortsAtSetup ==
    NoBackendUsable => processed = <<>>

\* add_documents is the store call that returned last, and it did not raise
Added ==
    /\ store_call.called
    /\ store_call.op = "add_documents"
    /\ ~store_call.raised
    /\ pc = "stored"

\* count() as a store call found it
CountBefore(call) ==
    IF call.before.table_exists THEN Len(call.before.rows) ELSE 0

\* What C13 says of the store: add_documents with an empty list changes
\* nothing (no connection, no directory, no table, no row); with n records
\* it leaves a table holding the earlier rows followed by the n records, so
\* count() grows by n.
AddedToStore ==
    LET n == Len(store_call.documents)
    IN  /\ n = 0 => StoreState = store_call.before
        /\ n > 0 =>
              /\ table_exists
              /\ rows = (IF store_call.before.table_exists
                         THEN store_call.before.rows ELSE <<>>)
                        \o store_call.documents
              /\ get_document_count = CountBefore(store_call) + n

\* C13 as claimed: add_documents with an empty list is a no-op; with n
\* records it creates the table if absent and otherwise appends, count()
\* afterwards is count() before plus n, and it returns n.
C13_AddReturnsCountWritten ==
    Added =>
        /\ AddedToStore
        /\ Len(store_call.documents) > 0 =>
              store_call.ret = <<Len(store_call.documents)>>

\* C13 as amended: the same effect on the store, for a call that does not
\* raise; the call returns no value (None), whatever it was given.
C13_AddReturnsNothing ==
    Added =>
        /\ AddedToStore
        /\ store_call.ret = <<>>

\* C13 witness: add_documents appended three records to a table that held
\* rows already.
C13_Witness ==
    /\ Added
    /\ store_call.before.table_exists
    /\ Len(store_call.before.rows) > 0
    /\ Len(store_call.documents) = 3
    /\ Len(rows) = Len(store_call.before.rows) + 3

\* get_document_count is the store call that returned last
Counted ==
    /\ store_call.called
    /\ store_call.op = "get_document_count"

\* C14: get_document_count returns the number of records stored, which is
\* the number of records written since the database directory was last
\* removed; when the table is absent it returns 0, does not raise and
\* leaves the table absent.
C14_CountIsStoredRecords ==
    /\ get_document_count = Len(Flatten(written))
    /\ ~table_exists => get_document_count = 0
    /\ Counted =>
          /\ ~store_call.raised
          /\ store_call.ret = Len(Flatten(written))
          /\ ~store_call.before.table_exists =>
                /\ store_call.ret = 0
                /\ ~table_exists
                /\ rows = <<>>

\* C14 witness: a run whose documents gave no record ended with a count of
\* 0: get_document_count connected, which created the database directory,
\* and found no table.
C14_Witness ==
    /\ Counted
    /\ processed # <<>>
    /\ store_call.before.db = "None"
    /\ ~store_call.before.dir_exists
    /\ store_call.ret = 0
    /\ dir_exists
    /\ ~table_exists

\* clear_data is the store call that returned last
Cleared ==
    /\ store_call.called
    /\ store_call.op = "clear_data"

\* C15: after clear_data the directory, the table and every row are gone,
\* whatever was written before and whether or not the manager held a
\* connection: count() is 0 and the store's search returns [] for every
\* query and k. When there was no directory clear_data changes nothing. A
\* non-empty add_documents that finds no table (as after clear_data) leaves
\* a table holding exactly the records it was given.
C15_ClearRemovesAllData ==
    /\ Cleared =>
          /\ ~dir_exists
          /\ ~table_exists
          /\ rows = <<>>
          /\ db = store_call.before.db
          /\ get_document_count = 0
          /\ \A q \in Texts, k \in 1..MaxK :
                store_search(Vector("local", q, "list"), k) = <<>>
          /\ ~store_call.before.dir_exists => StoreState = store_call.before
    /\ (Added /\ store_call.documents # <<>>
           /\ ~store_call.before.table_exists) =>
          /\ dir_exists
          /\ table_exists
          /\ rows = store_call.documents

\* C15 witness: clear_data on a manager holding a connection, after two
\* batches were written: nothing is left.
C15_Witness ==
    /\ Cleared
    /\ store_call.before.db = "conn"
    /\ Len(store_call.before.rows) = 8
    /\ rows = <<>>
    /\ get_document_count = 0

RECURSIVE RecordsOf(_)
\* the records of these processed documents, document after document: one
\* per chunk that has an embedding
RecordsOf(docs) ==
    IF docs = <<>> THEN <<>>
    ELSE LET doc == Head(docs)
             kept == SelectSeq([i \in 1..Len(doc.chunks) |-> i],
                               LAMBDA i : doc.embeddings[i] # None)
         IN  [p \in 1..Len(kept) |->
                [id |-> doc.source_path \o "_" \o ToString(kept[p] - 1),
                 text |-> doc.chunks[kept[p]].text,
                 source_path |-> doc.source_path,
                 vector |-> doc.embeddings[kept[p]]]]
             \o RecordsOf(Tail(docs))

\* the state parts of C16
OneBatchWrite ==
    /\ add_calls <= 1
    /\ pc = "processing" => add_calls = 0
    /\ pc \in {"stored", "done"} => add_calls = 1
    /\ add_calls = 1 =>
          /\ Len(processed) = Len(raw_documents)
          /\ \A d \in 1..Len(raw_documents) :
                processed[d].source_path = raw_documents[d].source_path
    /\ (store_call.called /\ store_call.op = "add_documents") =>
          /\ store_call.documents = all_documents_to_store
          /\ store_call.documents = RecordsOf(processed)

\* C16: a run of process_and_store_data calls add_documents at most once,
\* and exactly once when it gets to its end; the call comes after every
\* document was chunked and embedded and is handed the records of all of
\* them; while documents are being processed nothing is written to the
\* table.
C16_OneBatchWriteAfterAllDocuments ==
    /\ []OneBatchWrite
    /\ [][(pc = "processing" /\ pc' = "processing") =>
            UNCHANGED <<table_exists, rows, written>>]_vars

\* C16 witness: a run over a.md and b.md is done: both were processed, one
\* add_documents call wrote their four records.
C16_Witness ==
    /\ pc = "done"
    /\ add_calls = 1
    /\ Len(processed) = 2
    /\ Len(all_documents_to_store) = 4
    /\ written = <<all_documents_to_store>>
    /\ rows = all_documents_to_store

\* add_documents is the store call that returned last, and the write into
\* the table failed
StoreWriteFailed ==
    /\ store_call.called
    /\ store_call.op = "add_documents"
    /\ store_call.documents # <<>>
    /\ store_call.outcome = "raise"

\* C17: when the batch write fails add_documents raises, the run is aborted
\* with that error and never completes, and the table is what it was before
\* the call: none of the run's records is stored.
C17_StoreFailureAbortsRun ==
    /\ StoreWriteFailed =>
          /\ store_call.raised
          /\ pc = "aborted"
          /\ error = "StoreWriteError"
          /\ table_exists = store_call.before.table_exists
          /\ rows = store_call.before.rows
          /\ rows = Flatten(written)
    /\ pc \in {"stored", "done"} => error = "None"

\* C17 witness: the write of the four records of a.md and b.md failed on an
\* empty database: the run is aborted and no table exists.
C17_Witness ==
    /\ StoreWriteFailed
    /\ Len(store_call.documents) = 4
    /\ pc = "aborted"
    /\ ~table_exists
    /\ rows = <<>>

\* the lines of the report that say this
LinesSaying(kind) == {p \in 1..Len(report) : report[p].line = kind}

\* The lines of the report that state this quantity. The run prints a
\* number in four kinds of line: the chunks of the document at hand, the
\* index of a skipped chunk, the records add_documents was given, and the
\* table's count; no line states any other quantity.
Stating(quantity) ==
    CASE quantity = "chunks of the document at hand" ->
           LinesSaying("Generated chunks for this document.")
      [] quantity = "index of a skipped chunk" ->
           LinesSaying("Skipping chunk due to embedding failure.")
      [] quantity = "records stored" ->
           LinesSaying("Added documents to LanceDB.")
           \cup LinesSaying("Total documents in LanceDB table:")
      [] OTHER -> {}

\* C18 as claimed: when a run is done its report states the number of
\* documents processed, the total number of chunks generated, the number of
\* records stored and, for each document, the number of its chunks that
\* failed (were skipped).
C18_RunReportsTotals ==
    pc = "done" =>
        /\ \E p \in Stating("documents processed") :
              report[p].n = Len(processed)
        /\ \E p \in Stating("chunks generated in the run") :
              report[p].n = Len(Flatten([d \in 1..Len(processed) |->
                                           processed[d].chunks]))
        /\ \E p \in Stating("records stored") :
              report[p].n = get_document_count
        /\ \A d \in 1..Len(processed) :
              \E p \in Stating("failed chunks of a document") :
                /\ report[p].source_path = processed[d].source_path
                /\ report[p].n = Len(processed[d].chunks)
                                   - Cardinality(Embedded(processed[d]))

\* a step that removes the database directory
DirectoryRemoved == dir_exists /\ ~dir_exists'

\* a step in which retrieve returns
RetrieveReturns == retrieved = NoCall /\ retrieved' # NoCall

\* a step in which get_document_count returns
CountReturns == ~Counted /\ Counted'

\* C19: a step that does not remove the database directory keeps the table
\* and every row in it, unchanged and in place (rows are only added after
\* them); retrieve and get_document_count leave the table and its rows as
\* they are.
C19_RecordsStayUntilReset ==
    [][/\ ~DirectoryRemoved =>
            /\ table_exists => table_exists'
            /\ Len(rows') >= Len(rows)
            /\ SubSeq(rows', 1, Len(rows)) = rows
       /\ (RetrieveReturns \/ CountReturns) =>
            UNCHANGED <<table_exists, rows>>]_vars

\* C19 witness: retrieve has returned on a table holding two batches, the
\* first still in place under the second.
C19_Witness ==
    /\ retrieved.called
    /\ table_exists
    /\ Len(written) = 2
    /\ written[1] # <<>>
    /\ rows = written[1] \o written[2]

\* the path C20 gives a page's file: the directories mirror the path's
\* segments, the name is the last segment plus ".md", or index.md when the
\* path ends in a slash (its last segment is empty)
MirroredPath(url) ==
    IF url.slash \/ url.segments = <<>>
    THEN url.segments \o <<"index.md">>
    ELSE SubSeq(url.segments, 1, Len(url.segments) - 1)
         \o <<url.segments[Len(url.segments)] \o ".md">>

\* C20 as claimed: every page whose file was written has a file of its own,
\* holding its Markdown, at the path mirroring its URL (index.md for a path
\* ending in a slash); no two pages share a file.
C20_OneFilePerPage ==
    /\ \A u \in saved :
          \E f \in files :
             /\ f.content = u
             /\ f.path = MirroredPath(u)
    /\ Cardinality(files) = Cardinality(saved)

\* this record was built from a chunk of a processed document and from the
\* embedding of that chunk
FromEmbeddedChunk(rec) ==
    \E j \in 1..Len(processed) :
      \E i \in 1..Len(processed[j].chunks) :
        /\ rec.source_path = processed[j].source_path
        /\ rec.text = processed[j].chunks[i].text
        /\ processed[j].embeddings[i] # None
        /\ rec.vector = processed[j].embeddings[i]
        /\ rec.vector.of = rec.text

\* the state part of C21
StagesInOrder ==
    /\ Len(processed) <= Len(raw_documents)
    /\ \A j \in 1..Len(processed) :
          /\ processed[j].source_path = raw_documents[j].source_path
          /\ Len(processed[j].embeddings) = Len(processed[j].chunks)
          /\ \A i \in 1..Len(processed[j].chunks) :
                \/ processed[j].embeddings[i] = None
                \/ processed[j].embeddings[i].of
                     = processed[j].chunks[i].text
    /\ \A p \in 1..Len(all_documents_to_store) :
          FromEmbeddedChunk(all_documents_to_store[p])
    /\ (store_call.called /\ store_call.op = "add_documents") =>
          /\ Len(processed) = Len(raw_documents)
          /\ \A p \in 1..Len(store_call.documents) :
                FromEmbeddedChunk(store_call.documents[p])

\* C21: the documents of a run are taken in the loader's order, one at a
\* time; what is embedded for a document are the texts of its chunks, so it
\* is embedded after it was chunked; every record accumulated, and every
\* record handed to the store, was built from a chunk of a processed
\* document and that chunk's embedding, so no document is stored that was
\* not chunked and embedded.
C21_StagesInOrder ==
    /\ []StagesInOrder
    /\ [][(pc = "processing" /\ pc' = "processing"
             /\ processed' # processed) =>
            /\ Len(processed') = Len(processed) + 1
            /\ SubSeq(processed', 1, Len(processed)) = processed
            /\ processed'[Len(processed')].source_path
                 = raw_documents[Len(processed) + 1].source_path]_vars

\* C21 witness: b.md and then a.md were loaded, processed in that order and
\* stored: the table holds the record of b.md before the three of a.md.
C21_Witness ==
    /\ pc = "done"
    /\ Len(raw_documents) = 2
    /\ raw_documents[1].source_path = "b.md"
    /\ Len(processed) = 2
    /\ processed[1].source_path = "b.md"
    /\ processed[2].source_path = "a.md"
    /\ Len(rows) = 4
    /\ rows[1].source_path = "b.md"
    /\ rows[4].source_path = "a.md"

\* run() has just got to its end: load_data returned, the one
\* process_and_store_data call after it has printed the count
RunCompleted ==
    /\ pc = "done"
    /\ ingested = 1
    /\ Counted

\* C22: when run() has loaded data and ingested it to the end, the table
\* holds exactly the records of this run, one per chunk with an embedding
\* of the documents loaded in this run, each id once, and count() is their
\* number, whatever earlier runs had stored.
C22_CountIsThisRunsEmbeddedChunks ==
    RunCompleted =>
        /\ Len(processed) = Len(raw_documents)
        /\ rows = RecordsOf(processed)
        /\ get_document_count = Len(RecordsOf(processed))
        /\ store_call.ret = get_document_count
        /\ \A j \in 1..Len(processed) :
              Cardinality(FromSource(rows, processed[j].source_path))
                = Cardinality(Embedded(processed[j]))
        /\ \A p \in 1..Len(rows) :
              Cardinality(PositionsOf(rows, rows[p].id)) = 1

\* C22 witness: the second ingestion of a behaviour, entered after load_data
\* ran again, has ended: the table holds its four records.
C22_Witness ==
    /\ RunCompleted
    /\ runs = 2
    /\ Len(processed) = 2
    /\ Len(rows) = 4
    /\ store_call.ret = 4

\* C23: what the Embedder's get_embeddings returned for a document's chunks
\* holds None at every position or at none, so the document has a record
\* for every one of its chunks or no record at all.
C23_AllOrNothingPerDocument ==
    \A j \in 1..Len(processed) :
        LET doc == processed[j]
            records == FromSource(all_documents_to_store, doc.source_path)
        IN  /\ \/ Embedded(doc) = {}
               \/ Embedded(doc) = 1..Len(doc.chunks)
            /\ \/ Cardinality(records) = 0
               \/ Cardinality(records) = Len(doc.chunks)
            /\ Cardinality(records) = Cardinality(Embedded(doc))

\* C23 witness: in one run the call for the three chunks of a.md failed and
\* the call for b.md did not: a.md has no record, b.md has its one, and the
\* table holds that record alone.
C23_Witness ==
    /\ pc = "done"
    /\ Len(processed) = 2
    /\ \E j, k \in 1..2 :
         /\ processed[j].source_path = "a.md"
         /\ Embedded(processed[j]) = {}
         /\ processed[k].source_path = "b.md"
         /\ Embedded(processed[k]) = {1}
    /\ Len(all_documents_to_store) = 1
    /\ rows = all_documents_to_store


\* the iterations that fetched this URL, by their position in the log
FetchesOf(url) == {i \in 1..Len(scrape_log) : scrape_log[i].url = url}

\* the iterations whose fetch of this URL succeeded
FetchedOk(url) ==
    {i \in FetchesOf(url) : scrape_log[i].outcome # "Error fetching"}

\* the iterations that processed this URL: wrote its content (or failed to
\* write it) and extracted its links
ProcessingsOf(url) ==
    {i \in FetchesOf(url) : scrape_log[i].outcome \in {"Saved", "Error saving"}}

\* visited_urls holds the URLs fetched successfully and no other; a URL is
\* fetched successfully at most once, in the last iteration that fetched it,
\* and so processed at most once.
ProcessedOnce ==
    /\ visited_urls = {scrape_log[i].url : i \in {j \in 1..Len(scrape_log) :
                          scrape_log[j].outcome # "Error fetching"}}
    /\ \A i \in 1..Len(scrape_log) :
         LET url == scrape_log[i].url
         IN  /\ Cardinality(FetchedOk(url)) <= 1
             /\ Cardinality(ProcessingsOf(url)) <= 1
             /\ \A j \in FetchesOf(url) : i \in FetchedOk(url) => j <= i
    /\ saved \subseteq visited_urls

\* an iteration: a step that pops the head of the worklist
Dequeues == urls_to_visit # <<>> /\ urls_to_visit' # urls_to_visit

\* C24: no URL is processed more than once in a crawl. An iteration that
\* pops a visited URL only drops it; an iteration that pops a URL not yet
\* visited fetches it, however often it was fetched in vain before, and the
\* URL enters visited_urls in that iteration exactly when the fetch succeeds.
C24_NoUrlProcessedTwice ==
    /\ []ProcessedOnce
    /\ [][Dequeues =>
            LET current_url == Head(urls_to_visit)
            IN  IF current_url \in visited_urls
                THEN /\ urls_to_visit' = Tail(urls_to_visit)
                     /\ UNCHANGED <<visited_urls, files, saved, scrape_log>>
                ELSE /\ Len(scrape_log') = Len(scrape_log) + 1
                     /\ SubSeq(scrape_log', 1, Len(scrape_log)) = scrape_log
                     /\ scrape_log'[Len(scrape_log')].url = current_url
                     /\ IF scrape_log'[Len(scrape_log')].outcome
                             = "Error fetching"
                        THEN /\ UNCHANGED <<visited_urls, files, saved>>
                             /\ urls_to_visit' = Tail(urls_to_visit)
                        ELSE visited_urls' = visited_urls \cup {current_url}
        ]_vars

\* C24 witness: PageA was fetched in vain twice and then processed, and the
\* worklist still holds it: the next iteration skips it.
C24_Witness ==
    /\ urls_to_visit # <<>>
    /\ Head(urls_to_visit) = PageA
    /\ PageA \in visited_urls
    /\ Cardinality(FetchesOf(PageA)) = 3
    /\ Cardinality(ProcessingsOf(PageA)) = 1


\* the URLs a step appended to the worklist: what urls_to_visit' holds past
\* the part of urls_to_visit that was left when its head was popped
Enqueued ==
    SubSeq(urls_to_visit', Len(urls_to_visit), Len(urls_to_visit'))

\* the crawl has come to its end
CrawlOver == base_url # NoUrl /\ urls_to_visit = <<>>

\* C25: the crawl of a finite site ends, failed fetches or not: once
\* scrape_documentation is called the worklist becomes empty and stays so.
\* Every step of the loop pops the head of the worklist and appends only
\* URLs that have base_url's network location and hold path_filter.
C25_CrawlTerminates ==
    /\ (base_url # NoUrl) ~> [](urls_to_visit = <<>>)
    /\ [][base_url # NoUrl /\ urls_to_visit' # urls_to_visit =>
            /\ urls_to_visit # <<>>
            /\ SubSeq(urls_to_visit', 1, Len(urls_to_visit) - 1)
                 = Tail(urls_to_visit)
            /\ \A i \in 1..Len(Enqueued) :
                 /\ Enqueued[i].netloc = base_url.netloc
                 /\ \E k \in 1..Len(Enqueued[i].segments) :
                      /\ Enqueued[i].segments[k] = "docs"
                      /\ (k < Len(Enqueued[i].segments) \/ Enqueued[i].slash)
        ]_vars

\* C25 witness: a crawl from the root that is over, in which a fetch failed
\* and the URL was enqueued again and fetched, and in which pages linking to
\* other hosts and outside /docs/ were processed.
C25_Witness ==
    /\ CrawlOver
    /\ base_url = Root
    /\ Docs \in saved
    /\ \E i, j \in 1..Len(scrape_log) :
         /\ i < j
         /\ scrape_log[i].url = scrape_log[j].url
         /\ scrape_log[i].outcome = "Error fetching"
         /\ scrape_log[j].outcome = "Saved"
    /\ \E i \in 1..Len(scrape_log) :
         /\ scrape_log[i].outcome = "Error fetching"
         /\ scrape_log[i].url \notin visited_urls

====
